---------------------------- MODULE Spec2Model ----------------------------
(***************************************************************************)
(* Model of src/app_reparo.py: the start/stop log of vehicle repairs kept  *)
(* in the SQLite table "registros".                                        *)
(*                                                                         *)
(* Text values are sequences of one-character strings, so that upper()     *)
(* and strip() are computed rather than assumed.  SQL NULL / Python None   *)
(* is NoneStr for text columns and NoneTime for the timestamp columns.     *)
(* The wall clock "now" counts ticks of half a second; the timestamp       *)
(* format '%Y-%m-%d %H:%M:%S' keeps whole seconds only.                    *)
(*                                                                         *)
(* Two specifications over the same variables:                             *)
(*   Spec      every call runs to completion before the next one starts;   *)
(*   SpecConc  calls of several sessions interleave at the granularity of  *)
(*             their clock reads and SQL statements.                       *)
(***************************************************************************)
EXTENDS Integers, Sequences, FiniteSets, TLC

\* ------------------------------------------------------------------ bounds
MaxRegistros == 2
MaxClock == 2

\* ticks of the wall clock per second kept by strftime('%Y-%m-%d %H:%M:%S')
TicksPerSec == 2

\* ------------------------------------------------------------- text values
NoneStr == <<"None">>
NoneTime == -1

UpperChar(c) ==
    CASE c = "a" -> "A"
      [] c = "b" -> "B"
      [] c = "o" -> "O"
      [] OTHER -> c

\* str.upper()
Upper(s) == [i \in 1..Len(s) |-> UpperChar(s[i])]

IsSpace(c) == c = " "

RECURSIVE LStrip(_)
LStrip(s) == IF s # <<>> /\ IsSpace(Head(s)) THEN LStrip(Tail(s)) ELSE s

RECURSIVE RStrip(_)
RStrip(s) ==
    IF s # <<>> /\ IsSpace(s[Len(s)]) THEN RStrip(SubSeq(s, 1, Len(s) - 1)) ELSE s

\* str.strip()
Strip(s) == RStrip(LStrip(s))

\* Python truthiness of an optional string: None and "" are falsy
Truthy(s) == s # NoneStr /\ s # <<>>

\* datetime.now().strftime('%Y-%m-%d %H:%M:%S'): the sub-second part is dropped
Strftime(t) == t \div TicksPerSec

\* datetime.strptime(s, '%Y-%m-%d %H:%M:%S'): the instant, in ticks
Strptime(s) == s * TicksPerSec

\* --------------------------------------------------------------- inputs
VinInputs == { <<>>, <<" ">>, <<" ", "a">>, <<"A">>, <<"b">> }
OperadorInputs == { <<>>, <<" ">>, <<"o">>, <<"O", " ">> }
\* (tipo_retrabalho, shop) as passed together by a caller
ExtraInputs == { <<NoneStr, NoneStr>>, <<<<"r", " ">>, <<"B", "S">>>>, <<<<>>, <<>>>> }
\* filters of get_registros
FiltroVinInputs == { NoneStr, <<>>, <<"a">>, <<" ", "A">> }
FiltroOperadorInputs == { NoneStr, <<"o">> }
\* the sessions whose calls interleave, and the inputs of their calls
Procs == { "s1", "s2" }
ConcVinInputs == { <<>>, <<" ", "a">>, <<"b">> }
ConcOperadorInputs == { <<"o", " ">> }
ConcExtraInputs == { <<NoneStr, NoneStr>> }

VARIABLES registros, now, ret, ultimo, pc, loc, res, sucessos

vars == <<registros, now, ret, ultimo, pc, loc, res, sucessos>>

\* ------------------------------------------------------------ the table
Ids(regs) == 1..Len(regs)

\* validar_vin with the strip() left out
ValidarVin_SemStrip(vin) ==
    IF vin = <<>>
    THEN [ok |-> FALSE, vin |-> <<>>]
    ELSE [ok |-> TRUE, vin |-> Upper(vin)]

\* validar_vin: (valid, vin_limpo)
ValidarVin(vin) ==
    IF vin = <<>>
    THEN [ok |-> FALSE, vin |-> <<>>]
    ELSE [ok |-> TRUE, vin |-> Strip(Upper(vin))]

\* the SELECT below with ORDER BY hora_inicio ASC
SelectAberto_MaisAntigo(regs, vin) ==
    LET abertos == { i \in Ids(regs) : regs[i].vin = vin /\ regs[i].hora_fim = NoneTime }
    IN { i \in abertos : \A j \in abertos : regs[i].hora_inicio <= regs[j].hora_inicio }

\* the SELECT below with "AND hora_fim IS NULL" left out
SelectAberto_Todos(regs, vin) ==
    LET todos == { i \in Ids(regs) : regs[i].vin = vin }
    IN { i \in todos : \A j \in todos : regs[j].hora_inicio <= regs[i].hora_inicio }

\* SELECT ... WHERE vin = ? AND hora_fim IS NULL ORDER BY hora_inicio DESC LIMIT 1:
\* the ids the statement may return (rows with equal hora_inicio are in no set order)
SelectAberto(regs, vin) ==
    LET abertos == { i \in Ids(regs) : regs[i].vin = vin /\ regs[i].hora_fim = NoneTime }
    IN { i \in abertos : \A j \in abertos : regs[j].hora_inicio <= regs[i].hora_inicio }

\* verificar_reparo_aberto with the test inverted to "hora_fim IS NOT NULL"
VerificarReparoAberto_Fechados(regs, vin) ==
    { i \in Ids(regs) : regs[i].vin = Upper(vin) /\ regs[i].hora_fim # NoneTime }

\* verificar_reparo_aberto: the query above with vin.upper() as its parameter
VerificarReparoAberto(regs, vin) == SelectAberto(regs, Upper(vin))

\* str(uuid4()): an id no row has yet
NovoId(regs) == Len(regs) + 1

\* the row below with the operator stripped but not upper-cased
NovoRegistro_SemUpper(regs, vin_formatado, operador_id, tipo_retrabalho, shop, hora_inicio) ==
    [ id |-> Len(regs) + 1,
      vin |-> vin_formatado,
      operador_id |-> Strip(operador_id),
      tipo_retrabalho |-> IF Truthy(tipo_retrabalho) THEN Strip(tipo_retrabalho) ELSE NoneStr,
      shop |-> IF Truthy(shop) THEN shop ELSE NoneStr,
      hora_inicio |-> hora_inicio,
      hora_fim |-> NoneTime ]

\* the row written by INSERT INTO registros (...) VALUES (...)
NovoRegistro(regs, vin_formatado, operador_id, tipo_retrabalho, shop, hora_inicio) ==
    [ id |-> NovoId(regs),
      vin |-> vin_formatado,
      operador_id |-> Upper(Strip(operador_id)),
      tipo_retrabalho |-> IF Truthy(tipo_retrabalho) THEN Strip(tipo_retrabalho) ELSE NoneStr,
      shop |-> IF Truthy(shop) THEN shop ELSE NoneStr,
      hora_inicio |-> hora_inicio,
      hora_fim |-> NoneTime ]

\* UPDATE registros SET hora_fim = ? WHERE id = ?
UpdateHoraFim(regs, id, hora_fim) == [regs EXCEPT ![id].hora_fim = hora_fim]

\* duracao = hora_fim_dt - hora_inicio, in ticks
Duracao(hora_inicio, hora_fim) == Strptime(hora_fim) - Strptime(hora_inicio)

\* --------------------------------------------------------- return values
NoRows == <<>>

Result(op, vin, kind, id, duracao, operador_ret, rows) ==
    [ op |-> op, vin |-> vin, kind |-> kind, id |-> id,
      duracao |-> duracao, operador_ret |-> operador_ret, rows |-> rows ]

NoResult == Result("none", NoneStr, "none", 0, NoneTime, NoneStr, NoRows)

\* history, not program state: for each VIN, the id returned by the start that
\* was the last call on it and the operator that start was given, upper-cased
\* and trimmed; NoCall when the last call on the VIN was anything else
NoCall == [id |-> 0, operador |-> NoneStr]
Iniciado(id, operador_id) == [id |-> id, operador |-> Strip(Upper(operador_id))]
VinsFormatados == { ValidarVin(v).vin : v \in VinInputs }

\* the local variables of a call in progress
Loc(vin_formatado, operador_id, tipo_retrabalho, shop, hora, reparo_id, hora_inicio) ==
    [ vin_formatado |-> vin_formatado, operador_id |-> operador_id,
      tipo_retrabalho |-> tipo_retrabalho, shop |-> shop, hora |-> hora,
      reparo_id |-> reparo_id, hora_inicio |-> hora_inicio ]

NoLoc == Loc(NoneStr, NoneStr, NoneStr, NoneStr, NoneTime, 0, NoneTime)

Init ==
    /\ registros = <<>>
    /\ now = 0
    /\ ret = NoResult
    /\ ultimo = [v \in VinsFormatados |-> NoCall]
    /\ pc = [p \in Procs |-> "idle"]
    /\ loc = [p \in Procs |-> NoLoc]
    /\ res = [p \in Procs |-> NoResult]
    /\ sucessos = {}

\* the wall clock advances
Tick ==
    /\ now < MaxClock
    /\ now' = now + 1
    /\ UNCHANGED <<registros, ret, ultimo, pc, loc, res, sucessos>>

\* ------------------------------------------- calls that run to completion
\* iniciar_reparo(vin, operador_id, tipo_retrabalho, shop)
IniciarReparo(vin, operador_id, tipo_retrabalho, shop) ==
    LET v == ValidarVin(vin) IN
    /\ IF ~v.ok
       THEN /\ ret' = Result("iniciar", vin, "InvalidInput", 0,
                             NoneTime, NoneStr, NoRows)
            /\ UNCHANGED <<registros, ultimo>>
       ELSE IF VerificarReparoAberto(registros, v.vin) # {}
       THEN /\ ret' = Result("iniciar", vin, "OpenRepairExists", 0,
                             NoneTime, NoneStr, NoRows)
            /\ ultimo' = [ultimo EXCEPT ![v.vin] = NoCall]
            /\ UNCHANGED registros
       ELSE /\ Len(registros) < MaxRegistros
            /\ registros' = Append(registros,
                   NovoRegistro(registros, v.vin, operador_id, tipo_retrabalho, shop,
                                Strftime(now)))
            /\ ret' = Result("iniciar", vin, "Ok", NovoId(registros),
                             NoneTime, NoneStr, NoRows)
            /\ ultimo' = [ultimo EXCEPT ![v.vin] = Iniciado(NovoId(registros), operador_id)]
    /\ UNCHANGED <<now, pc, loc, res, sucessos>>

\* finalizar_reparo(vin)
FinalizarReparo(vin) ==
    LET v == ValidarVin(vin)
        hora_fim == Strftime(now)
    IN
    /\ IF ~v.ok
       THEN /\ ret' = Result("finalizar", vin, "InvalidInput", 0,
                             NoneTime, NoneStr, NoRows)
            /\ UNCHANGED <<registros, ultimo>>
       ELSE IF SelectAberto(registros, v.vin) = {}
       THEN /\ ret' = Result("finalizar", vin, "NoOpenRepair", 0,
                             NoneTime, NoneStr, NoRows)
            /\ ultimo' = [ultimo EXCEPT ![v.vin] = NoCall]
            /\ UNCHANGED registros
       ELSE \E reparo_id \in SelectAberto(registros, v.vin) :
            /\ registros' = UpdateHoraFim(registros, reparo_id, hora_fim)
            /\ ret' = Result("finalizar", vin, "Ok", reparo_id,
                             Duracao(registros[reparo_id].hora_inicio, hora_fim),
                             registros[reparo_id].operador_id, NoRows)
            /\ ultimo' = [ultimo EXCEPT ![v.vin] = NoCall]
    /\ UNCHANGED <<now, pc, loc, res, sucessos>>

\* the orders in which SELECT ... ORDER BY hora_inicio DESC may return the rows
\* `ids` (rows with equal hora_inicio are in no set order)
OrderByHoraInicioDesc(regs, ids) ==
    { rows \in [1..Cardinality(ids) -> ids] :
        /\ \A i, j \in DOMAIN rows : i # j => rows[i] # rows[j]
        /\ \A i, j \in DOMAIN rows :
              i < j => regs[rows[i]].hora_inicio >= regs[rows[j]].hora_inicio }

\* the WHERE clause get_registros builds from its filters
WhereRegistros(regs, filtro_operador, filtro_vin, apenas_completos) ==
    { i \in Ids(regs) :
        /\ Truthy(filtro_operador) => regs[i].operador_id = Upper(filtro_operador)
        /\ Truthy(filtro_vin) => regs[i].vin = Upper(filtro_vin)
        /\ apenas_completos => regs[i].hora_fim # NoneTime }

\* get_registros(filtro_operador, filtro_vin, apenas_completos); the date filters
\* are left at None
GetRegistros(filtro_operador, filtro_vin, apenas_completos) ==
    /\ \E rows \in OrderByHoraInicioDesc(registros,
            WhereRegistros(registros, filtro_operador, filtro_vin, apenas_completos)) :
          ret' = Result("consultar", NoneStr, "Ok", 0, NoneTime, NoneStr, rows)
    /\ UNCHANGED <<registros, now, ultimo, pc, loc, res, sucessos>>

\* the rows of get_registros(apenas_completos=True), as the report tab reads them
RegistrosCompletos(regs) == WhereRegistros(regs, NoneStr, NoneStr, TRUE)

\* df['duracao'] = df['hora_fim'] - df['hora_inicio'], in ticks
DuracaoRegistro(regs, i) == Strptime(regs[i].hora_fim) - Strptime(regs[i].hora_inicio)

\* the 'sum' aggregate over the rows `ids`
RECURSIVE SomaDuracao(_, _)
SomaDuracao(regs, ids) ==
    IF ids = {} THEN 0
    ELSE LET i == CHOOSE x \in ids : TRUE
         IN DuracaoRegistro(regs, i) + SomaDuracao(regs, ids \ {i})

\* df_registros.groupby('Operador').agg({'Duração (min)': ['count', 'mean', 'sum'],
\* 'VIN': 'count'}), columns renamed 'Total Reparos', ..., 'Total VINs'; the mean
\* is the quotient of the two figures kept here
ResumoOperador(regs) ==
    LET completos == RegistrosCompletos(regs)
        operadores == { regs[i].operador_id : i \in completos }
        grupo(o) == { i \in completos : regs[i].operador_id = o }
    IN [ o \in operadores |->
           [ total_reparos |-> Cardinality(grupo(o)),
             tempo_total |-> SomaDuracao(regs, grupo(o)),
             total_vins |-> Cardinality(grupo(o)) ] ]

Next ==
    \/ Tick
    \/ \E vin \in VinInputs, operador_id \in OperadorInputs, extra \in ExtraInputs :
          IniciarReparo(vin, operador_id, extra[1], extra[2])
    \/ \E vin \in VinInputs : FinalizarReparo(vin)
    \/ \E filtro_operador \in FiltroOperadorInputs, filtro_vin \in FiltroVinInputs,
          apenas_completos \in BOOLEAN :
          GetRegistros(filtro_operador, filtro_vin, apenas_completos)

Spec == Init /\ [][Next]_vars


\* ------------------------------------- calls of several sessions interleaved
\* a call returns: its result is recorded and its locals are gone
Return(p, result) ==
    /\ res' = [res EXCEPT ![p] = result]
    /\ loc' = [loc EXCEPT ![p] = NoLoc]
    /\ pc' = [pc EXCEPT ![p] = "idle"]

IniciarPcs == { "i_verificar", "i_hora", "i_insert" }

\* iniciar_reparo is called: validar_vin
IniciarBegin(p, vin, operador_id, tipo_retrabalho, shop) ==
    LET v == ValidarVin(vin) IN
    /\ pc[p] = "idle"
    /\ IF ~v.ok
       THEN Return(p, Result("iniciar", vin, "InvalidInput", 0, NoneTime, NoneStr, NoRows))
       ELSE /\ Len(registros) + Cardinality({ q \in Procs : pc[q] \in IniciarPcs })
                 < MaxRegistros
            /\ loc' = [loc EXCEPT ![p] =
                   Loc(v.vin, operador_id, tipo_retrabalho, shop, NoneTime, 0, NoneTime)]
            /\ pc' = [pc EXCEPT ![p] = "i_verificar"]
            /\ UNCHANGED res
    /\ UNCHANGED <<registros, now, ret, ultimo, sucessos>>

\* reparo_aberto = verificar_reparo_aberto(vin_formatado)
IniciarVerificar(p) ==
    /\ pc[p] = "i_verificar"
    /\ IF VerificarReparoAberto(registros, loc[p].vin_formatado) # {}
       THEN Return(p, Result("iniciar", loc[p].vin_formatado, "OpenRepairExists", 0,
                             NoneTime, NoneStr, NoRows))
       ELSE /\ pc' = [pc EXCEPT ![p] = "i_hora"]
            /\ UNCHANGED <<loc, res>>
    /\ UNCHANGED <<registros, now, ret, ultimo, sucessos>>

\* hora_inicio = datetime.now().strftime(...)
IniciarHora(p) ==
    /\ pc[p] = "i_hora"
    /\ loc' = [loc EXCEPT ![p].hora = Strftime(now)]
    /\ pc' = [pc EXCEPT ![p] = "i_insert"]
    /\ UNCHANGED <<registros, now, ret, ultimo, res, sucessos>>

\* INSERT INTO registros ...; commit; return True, reparo_id
IniciarInsert(p) ==
    /\ pc[p] = "i_insert"
    /\ registros' = Append(registros,
           NovoRegistro(registros, loc[p].vin_formatado, loc[p].operador_id,
                        loc[p].tipo_retrabalho, loc[p].shop, loc[p].hora))
    /\ Return(p, Result("iniciar", loc[p].vin_formatado, "Ok", NovoId(registros),
                        NoneTime, NoneStr, NoRows))
    /\ UNCHANGED <<now, ret, ultimo, sucessos>>

\* finalizar_reparo is called: validar_vin, then hora_fim = datetime.now().strftime(...)
FinalizarBegin(p, vin) ==
    LET v == ValidarVin(vin) IN
    /\ pc[p] = "idle"
    /\ IF ~v.ok
       THEN Return(p, Result("finalizar", vin, "InvalidInput", 0, NoneTime, NoneStr, NoRows))
       ELSE /\ loc' = [loc EXCEPT ![p] =
                   Loc(v.vin, NoneStr, NoneStr, NoneStr, Strftime(now), 0, NoneTime)]
            /\ pc' = [pc EXCEPT ![p] = "f_select"]
            /\ UNCHANGED res
    /\ UNCHANGED <<registros, now, ret, ultimo, sucessos>>

\* SELECT id, hora_inicio, operador_id ...; reparo_incompleto = c.fetchone()
FinalizarSelect(p) ==
    /\ pc[p] = "f_select"
    /\ IF SelectAberto(registros, loc[p].vin_formatado) = {}
       THEN Return(p, Result("finalizar", loc[p].vin_formatado, "NoOpenRepair", 0,
                             NoneTime, NoneStr, NoRows))
       ELSE /\ \E reparo_id \in SelectAberto(registros, loc[p].vin_formatado) :
                 loc' = [loc EXCEPT ![p].reparo_id = reparo_id,
                                    ![p].hora_inicio = registros[reparo_id].hora_inicio,
                                    ![p].operador_id = registros[reparo_id].operador_id]
            /\ pc' = [pc EXCEPT ![p] = "f_update"]
            /\ UNCHANGED res
    /\ UNCHANGED <<registros, now, ret, ultimo, sucessos>>

\* UPDATE registros SET hora_fim = ? WHERE id = ?; commit; return True, ...
FinalizarUpdate(p) ==
    /\ pc[p] = "f_update"
    /\ registros' = UpdateHoraFim(registros, loc[p].reparo_id, loc[p].hora)
    /\ Return(p, Result("finalizar", loc[p].vin_formatado, "Ok", loc[p].reparo_id,
                        Duracao(loc[p].hora_inicio, loc[p].hora), loc[p].operador_id,
                        NoRows))
    /\ sucessos' = sucessos \cup { <<p, loc[p].reparo_id>> }
    /\ UNCHANGED <<now, ret, ultimo>>

NextConc ==
    \/ Tick
    \/ \E p \in Procs, vin \in ConcVinInputs, operador_id \in ConcOperadorInputs,
          extra \in ConcExtraInputs :
          IniciarBegin(p, vin, operador_id, extra[1], extra[2])
    \/ \E p \in Procs : IniciarVerificar(p)
    \/ \E p \in Procs : IniciarHora(p)
    \/ \E p \in Procs : IniciarInsert(p)
    \/ \E p \in Procs, vin \in ConcVinInputs : FinalizarBegin(p, vin)
    \/ \E p \in Procs : FinalizarSelect(p)
    \/ \E p \in Procs : FinalizarUpdate(p)

SpecConc == Init /\ [][NextConc]_vars

\* starts of several sessions interleaved, every stop run to completion on the
\* table the starts have left
NextCorrida ==
    \/ Tick
    \/ \E p \in Procs, vin \in ConcVinInputs, operador_id \in ConcOperadorInputs,
          extra \in ConcExtraInputs :
          IniciarBegin(p, vin, operador_id, extra[1], extra[2])
    \/ \E p \in Procs : IniciarVerificar(p)
    \/ \E p \in Procs : IniciarHora(p)
    \/ \E p \in Procs : IniciarInsert(p)
    \/ \E vin \in ConcVinInputs : FinalizarReparo(vin)

SpecCorrida == Init /\ [][NextCorrida]_vars

\* ================================================================ claims
\* what the claims call the normalized VIN: the input upper-cased and trimmed
NormVin(vin) == Strip(Upper(vin))

\* the inputs validar_vin accepts as a VIN: every non-empty string
VinAceito(vin) == vin # <<>>

\* the open records of a VIN
Abertos(regs, vin) == { i \in Ids(regs) : regs[i].vin = vin /\ regs[i].hora_fim = NoneTime }
Fechados(regs, vin) == { i \in Ids(regs) : regs[i].vin = vin /\ regs[i].hora_fim # NoneTime }

\* a step of Spec that is a call of `op`: ret' holds the call and what it returned
\* (the clock alone moves in every other step)
Chamada(op) == now' = now /\ ret'.op = op

\* C1: when calls run one at a time, each to completion, every VIN has at most
\* one record with hora_fim NULL, in every state reachable from the empty table.
C1_SingleOpenPerVin ==
    \A i, j \in Ids(registros) :
        ( /\ registros[i].vin = registros[j].vin
          /\ registros[i].hora_fim = NoneTime
          /\ registros[j].hora_fim = NoneTime ) => i = j

\* a VIN repaired twice: an earlier repair closed, a later one open, and a further
\* start on it refused
C1_Witness ==
    /\ ret.op = "iniciar" /\ ret.kind = "OpenRepairExists"
    /\ \E i, j \in Ids(registros) :
          /\ registros[i].vin = registros[j].vin
          /\ registros[i].hora_fim # NoneTime
          /\ registros[j].hora_fim = NoneTime

\* C2: when starts of several sessions interleave, at most one start per VIN
\* succeeds while the VIN is open (the other is refused), so the table never holds
\* two open records of one VIN.
C2_ConcurrentStartsSerialized ==
    /\ \A vin \in VinsFormatados : Cardinality(Abertos(registros, vin)) <= 1
    /\ \A p, q \in Procs :
          ( /\ p # q
            /\ res[p].op = "iniciar" /\ res[p].kind = "Ok"
            /\ res[q].op = "iniciar" /\ res[q].kind = "Ok"
            /\ res[p].vin = res[q].vin )
          => \/ registros[res[p].id].hora_fim # NoneTime
             \/ registros[res[q].id].hora_fim # NoneTime

\* C3: a start whose VIN (as validar_vin accepts and normalizes it) has an open
\* record returns the OpenRepairExists failure whatever operator, rework type and
\* shop it is given and whatever the case or padding of the VIN input, and leaves
\* the table as it was.
C3_StartRefusedWhileOpen ==
    [][ ( /\ Chamada("iniciar")
          /\ VinAceito(ret'.vin)
          /\ Abertos(registros, NormVin(ret'.vin)) # {} )
        => /\ ret'.kind = "OpenRepairExists"
           /\ registros' = registros ]_vars

\* a start refused for an input that is not the stored VIN letter for letter
C3_Witness ==
    /\ ret.op = "iniciar" /\ ret.kind = "OpenRepairExists"
    /\ ret.vin # NormVin(ret.vin)
    /\ Abertos(registros, NormVin(ret.vin)) # {}

\* C4: a stop whose VIN (as validar_vin accepts and normalizes it) has no open
\* record returns the NoOpenRepair failure and leaves every record as it was,
\* both when the VIN has no record and when its records are all closed.
C4_StopRefusedWhenNoneOpen ==
    [][ ( /\ Chamada("finalizar")
          /\ VinAceito(ret'.vin)
          /\ Abertos(registros, NormVin(ret'.vin)) = {} )
        => /\ ret'.kind = "NoOpenRepair"
           /\ registros' = registros ]_vars

\* a stop refused on a VIN whose repair was closed before
C4_Witness ==
    /\ ret.op = "finalizar" /\ ret.kind = "NoOpenRepair"
    /\ Fechados(registros, NormVin(ret.vin)) # {}
    /\ Abertos(registros, NormVin(ret.vin)) = {}

\* C5: a stop that is the next call on a VIN after a successful start returning
\* id A for operator op succeeds and returns A, op trimmed and upper-cased, and a
\* duration equal to hora_fim minus hora_inicio as stored in record A afterwards.
C5_StartThenStop ==
    [][ ( /\ Chamada("finalizar")
          /\ VinAceito(ret'.vin)
          /\ ultimo[NormVin(ret'.vin)] # NoCall )
        => LET A == ultimo[NormVin(ret'.vin)].id IN
           /\ ret'.kind = "Ok"
           /\ ret'.id = A
           /\ ret'.operador_ret = ultimo[NormVin(ret'.vin)].operador
           /\ registros'[A].hora_fim # NoneTime
           /\ ret'.duracao =
                 TicksPerSec * (registros'[A].hora_fim - registros'[A].hora_inicio) ]_vars

\* a repair stopped a full second or more after it was started by an operator
\* given in lower case
C5_Witness ==
    /\ ret.op = "finalizar" /\ ret.kind = "Ok"
    /\ ret.operador_ret = <<"O">>
    /\ ret.duracao > 0
    /\ registros[ret.id].hora_fim > registros[ret.id].hora_inicio

\* C6: hora_fim is written once per record: no step, of any interleaving of the
\* sessions' calls, changes or clears a hora_fim that is set, and no record is
\* reported closed by more than one stop.
C6_EndedAtWrittenOnce ==
    [][ /\ \A id \in Ids(registros) :
              registros[id].hora_fim # NoneTime
                  => registros'[id].hora_fim = registros[id].hora_fim
        /\ \A id \in Ids(registros') :
              Cardinality({ p \in Procs : <<p, id>> \in sucessos' }) <= 1 ]_vars

\* C7: with a clock that never goes back, every closed record has
\* hora_inicio <= hora_fim, in every interleaving of the sessions' calls.
C7_StartNotAfterEnd ==
    \A id \in Ids(registros) :
        registros[id].hora_fim # NoneTime
            => registros[id].hora_inicio <= registros[id].hora_fim

\* C8: a start whose VIN is empty after upper-casing and trimming fails with
\* InvalidInput and inserts nothing, so that no record has an empty vin.
C8_EmptyVinRejected ==
    /\ \A i \in Ids(registros) : registros[i].vin # <<>>
    /\ (ret.op = "iniciar" /\ NormVin(ret.vin) = <<>>) => ret.kind = "InvalidInput"

\* C9: a start whose operator is empty, or empty after trimming, fails with
\* InvalidInput and inserts nothing, so that every record has a non-empty
\* operador_id.
C9_EmptyOperatorRejected ==
    [][ /\ \A vin \in VinInputs, operador_id \in OperadorInputs, extra \in ExtraInputs :
            ( /\ IniciarReparo(vin, operador_id, extra[1], extra[2])
              /\ Strip(operador_id) = <<>> )
            => /\ ret'.kind = "InvalidInput"
               /\ registros' = registros
        /\ \A i \in Ids(registros') : registros'[i].operador_id # <<>> ]_vars

\* C10: get_registros filtered by a VIN returns exactly the records whose vin is
\* the filter upper-cased and trimmed, latest hora_inicio first.
C10_QueryByVin ==
    [][ \A filtro_vin \in FiltroVinInputs :
          ( /\ GetRegistros(NoneStr, filtro_vin, FALSE)
            /\ filtro_vin # NoneStr
            /\ NormVin(filtro_vin) # <<>> )
          => /\ { ret'.rows[k] : k \in DOMAIN ret'.rows }
                  = { i \in Ids(registros) : registros[i].vin = NormVin(filtro_vin) }
             /\ \A k, l \in DOMAIN ret'.rows :
                  k < l => registros[ret'.rows[k]].hora_inicio
                             >= registros[ret'.rows[l]].hora_inicio ]_vars
\* C11: in the per-operator summary over closed records, the VIN figure of each
\* operator is the number of distinct VINs among that operator's closed records.
C11_TotalVinsDistinct ==
    \A o \in DOMAIN ResumoOperador(registros) :
        ResumoOperador(registros)[o].total_vins =
            Cardinality({ registros[i].vin :
                            i \in { j \in Ids(registros) :
                                      /\ registros[j].hora_fim # NoneTime
                                      /\ registros[j].operador_id = o } })

\* what finalizar_reparo(vin) and iniciar_reparo(vin, ...) would do in the table regs
FinalizarTeriaSucesso(regs, vin) ==
    ValidarVin(vin).ok /\ SelectAberto(regs, ValidarVin(vin).vin) # {}
IniciarSeriaRecusado(regs, vin) ==
    ValidarVin(vin).ok /\ VerificarReparoAberto(regs, ValidarVin(vin).vin) # {}

\* C13: for every raw VIN input, lower-case letters and surrounding whitespace
\* included, verificar_reparo_aberto returns a record exactly when a stop of that
\* input would succeed and a start of it would be refused as already open, and
\* the record it returns is the one the stop would close.
C13_PeekAgreesWithStartStop ==
    \A vin \in VinInputs :
        /\ (VerificarReparoAberto(registros, vin) # {})
              <=> ( /\ FinalizarTeriaSucesso(registros, vin)
                    /\ IniciarSeriaRecusado(registros, vin) )
        /\ FinalizarTeriaSucesso(registros, vin)
              => VerificarReparoAberto(registros, vin)
                   = SelectAberto(registros, ValidarVin(vin).vin)

\* a step of SpecCorrida that is a call of finalizar_reparo: no session moves,
\* the clock stands, and ret' holds the call and what it returned
ChamadaFinalizar ==
    /\ now' = now /\ pc' = pc /\ loc' = loc /\ res' = res
    /\ ret'.op = "finalizar"

\* C12: a stop (run to completion) of a VIN that has several open records closes
\* exactly one of them, one whose hora_inicio is the greatest among them, returns
\* its id, and leaves every other record of every VIN as it was.
C12_StopClosesLatestOpen ==
    [][ ( /\ ChamadaFinalizar
          /\ VinAceito(ret'.vin)
          /\ Cardinality(Abertos(registros, NormVin(ret'.vin))) >= 2 )
        => /\ ret'.kind = "Ok"
           /\ ret'.id \in Abertos(registros, NormVin(ret'.vin))
           /\ \A j \in Abertos(registros, NormVin(ret'.vin)) :
                 registros[j].hora_inicio <= registros[ret'.id].hora_inicio
           /\ Len(registros') = Len(registros)
           /\ registros'[ret'.id].hora_fim # NoneTime
           /\ registros'[ret'.id] =
                 [registros[ret'.id] EXCEPT !.hora_fim = registros'[ret'.id].hora_fim]
           /\ \A j \in Ids(registros) : j # ret'.id => registros'[j] = registros[j] ]_vars

\* a stop has closed the later of two open records of a VIN; the earlier one is
\* still open
C12_Witness ==
    /\ ret.op = "finalizar" /\ ret.kind = "Ok"
    /\ registros[ret.id].hora_fim # NoneTime
    /\ \E j \in Ids(registros) :
          /\ j # ret.id
          /\ registros[j].vin = registros[ret.id].vin
          /\ registros[j].hora_fim = NoneTime
          /\ registros[j].hora_inicio < registros[ret.id].hora_inicio

=============================================================================
